---- MODULE Spec2Model ----
(***************************************************************************)
(* A model of src/chef.py: the Streamlit script (one script run per user   *)
(* interaction), the cached load_models, the streaming call                *)
(* get_gemini_flash_text_response and the "Generate my recipes." handler.  *)
(*                                                                         *)
(* Strings that the program joins or tests are sequences of characters;    *)
(* the prompt is the sequence of the f-string's pieces.  What the script   *)
(* shows and logs in one run is the sequence `out` of events, in the order *)
(* the calls are made.                                                     *)
(*                                                                         *)
(* The remote service is the environment: it lets the stream open or not,  *)
(* delivers fragments one at a time, and ends the stream normally or with  *)
(* an error.  A fragment's `.text` returns a string, returns None, or       *)
(* raises IndexError, the one failure line 51 handles.                     *)
(***************************************************************************)
EXTENDS Naturals, Sequences, FiniteSets

\* ------------------------------------------------------------------ bounds

\* Fragments one stream delivers at most.
MaxFrags == 3
\* Script runs (user interactions) in one process.
MaxRuns == 2

\* ------------------------------------------------------------- environment

\* The text payloads the service may send: empty, a letter, a lone space, a
\* phrase with an inner space.
Texts == { <<>>, <<"a">>, <<" ">>, <<"a", " ", "b">> }

\* Python's None where a str is expected: no sequence of characters.
PyNone == << "<None>" >>

IsStr(x) == x # PyNone

\* A fragment without text whose `.text` raises IndexError.
NoText == [text |-> FALSE]

\* A fragment without text whose `.text` returns None.
NoneText == [text |-> TRUE, payload |-> PyNone]

\* Line 50: `.text` returns a value (a str or None) and does not raise.
TextReturns(f) == f.text

TextFragments == { [text |-> TRUE, payload |-> t] : t \in Texts }

Fragments == TextFragments \cup {NoText, NoneText}

\* ------------------------------------------------------------ load_models

\* The empty st.cache_resource slot.
NoHandle == "<no handle>"

\* Line 26: the model identifier load_models' body returns.
text_model_flash_id == "gemini-2.0-flash-001"

\* --------------------------------------------------------------- the form

\* A selectbox with index=None and nothing chosen returns None: <<>>.
NoSelection == <<>>

\* Lines 66-104: what the widgets may return.  The selectboxes return None or
\* one of their options, the text inputs their defaults or what was typed, the
\* radio one of its three options.
CuisineChoices == { NoSelection, <<"Italian">> }
DietaryChoices == { NoSelection, <<"Vegan">> }
AllergyChoices == { "peanuts" }
Ingredient1Choices == { "ahi tuna" }
Ingredient2Choices == { "chicken breast" }
Ingredient3Choices == { "tofu", "" }
WineChoices == { "Red", "White", "None" }

\* An f-string field: str(None) is "None".
Format(v) == IF v = NoSelection THEN "None" ELSE v[1]

\* Lines 109-124: the f-string, piece by piece: literal text and formatted
\* fields in the order they are concatenated.
BuildPrompt(c, d, a, i1, i2, i3, w) ==
    << "I am a Chef.  I need to create ", Format(c),
       " \nrecipes for customers who want ", Format(d),
       " meals. \nHowever, don't include recipes that use ingredients with the customer's ",
       a,
       " allergy. \nI have ", i1,
       ", \n", i2,
       ", \nand ", i3,
       " \nin my kitchen and other ingredients. \nThe customer's wine preference is ",
       w,
       " \nPlease provide some for meal recommendations.\nFor each recommendation include preparation instructions,\ntime to prepare\nand the recipe title at the beginning of the response.\nThen include the wine paring for each recommendation.\nAt the end of the recommendation provide the calories associated with the meal\nand the nutritional facts.\n" >>

\* Python's truth value of a str or a list: non-empty.
Truthy(s) == Len(s) > 0

\* ------------------------------------------------------------ aggregation

\* Lines 48-54: append what `.text` returns (a str, or None), or "" when it
\* raises IndexError.
Collect(acc, f) ==
    IF TextReturns(f) THEN Append(acc, f.payload) ELSE Append(acc, <<>>)

\* A fragment carries a text payload when `.text` returns a str.
CarriesText(f) == TextReturns(f) /\ IsStr(f.payload)

\* The string each fragment stands for in a result: its text, or "" where it
\* carries none.
Parts(frags) ==
    [ i \in 1..Len(frags) |-> IF CarriesText(frags[i]) THEN frags[i].payload ELSE <<>> ]

\* Line 56: str.join raises TypeError on an item that is not a str.
JoinRaises(parts) == \E i \in 1..Len(parts) : ~IsStr(parts[i])

RECURSIVE Join(_)
\* Line 56: " ".join(parts), for parts that are all str.
Join(parts) ==
    IF parts = <<>> THEN <<>>
    ELSE IF Len(parts) = 1 THEN parts[1]
    ELSE parts[1] \o <<" ">> \o Join(Tail(parts))

\* ------------------------------------------------------------------ state

VARIABLES
    cache,          \* st.cache_resource's slot for load_models
    bodyRuns,       \* times load_models' body has run in this process
    runs,           \* script runs started
    rpc,            \* where the script run is
    text_model_flash, \* line 60
    cuisine, dietary_preference, allergy, ingredient_1, ingredient_2,
    ingredient_3, wine, \* lines 66-104: widget values of this run
    prompt,         \* line 109
    generate_t2t,   \* line 152: the button was pressed for this run
    gpc,            \* the call's state: NotStarted, Streaming, Completed, Failed
    calls,          \* generate calls made in this run
    opens,          \* times the current call has opened a stream
    model_arg,      \* the call's `model`
    contents,       \* the call's `contents`
    delivered,      \* the fragments the stream has delivered to the call
    final_response, \* line 46
    failure,        \* why the call failed: "none", "open", "midstream", "join"
    response,       \* line 161: what the handler got back
    returned,       \* whether the call has returned a value
    out,            \* this run's st.write, logging.info and st.text calls, in order
    \* The Model Provider of spec section 4.1 (AcquireSpec only).
    chain,          \* the configured identifiers, preferred first
    avail,          \* the identifiers the service will instantiate
    apc,            \* "start", "trying", "ready", "fatal"
    idx,            \* the chain position being attempted
    attempted,      \* the identifiers attempted so far, in order
    warnings,       \* warnings logged
    handle,         \* the cached handle
    got,            \* what the last acquire_model call returned
    acquireCalls,   \* acquire_model calls made
    userActions     \* user actions the application has accepted

chefVars == << cache, bodyRuns, runs, rpc, text_model_flash, cuisine,
               dietary_preference, allergy, ingredient_1, ingredient_2,
               ingredient_3, wine, prompt, generate_t2t, gpc, calls, opens, model_arg, contents, delivered,
               final_response, failure, response, returned, out >>

acquireVars == << chain, avail, apc, idx, attempted, warnings, handle, got,
                  acquireCalls, userActions >>

vars == << chefVars, acquireVars >>

processVars == << cache, bodyRuns, runs >>
widgetVars == << cuisine, dietary_preference, allergy, ingredient_1,
                ingredient_2, ingredient_3, wine >>
formVars == << text_model_flash, widgetVars, prompt, generate_t2t >>
callVars == << gpc, calls, opens, model_arg, contents, delivered, final_response,
               failure, response, returned >>

ChefInit ==
    /\ cache = NoHandle
    /\ bodyRuns = 0
    /\ runs = 0
    /\ rpc = "idle"
    /\ text_model_flash = NoHandle
    /\ cuisine = NoSelection
    /\ dietary_preference = NoSelection
    /\ allergy = ""
    /\ ingredient_1 = ""
    /\ ingredient_2 = ""
    /\ ingredient_3 = ""
    /\ wine = "Red"
    /\ prompt = <<>>
    /\ generate_t2t = FALSE
    /\ gpc = "NotStarted"
    /\ calls = 0
    /\ opens = 0
    /\ model_arg = NoHandle
    /\ contents = <<>>
    /\ delivered = <<>>
    /\ final_response = <<>>
    /\ failure = "none"
    /\ response = <<>>
    /\ returned = FALSE
    /\ out = <<>>

\* chef.py has no fallback chain: the provider's state is idle throughout.
AcquireIdle ==
    /\ chain = <<>>
    /\ avail = {}
    /\ apc = "start"
    /\ idx = 0
    /\ attempted = <<>>
    /\ warnings = 0
    /\ handle = NoHandle
    /\ got = NoHandle
    /\ acquireCalls = 0
    /\ userActions = 0

Init == ChefInit /\ AcquireIdle

\* ------------------------------------------------------------- script run

\* What `out` records: st.write, logging.info and st.text calls.
Write(s) == [kind |-> "write", text |-> s]
Log(s) == [kind |-> "log", text |-> s]
Text(s) == [kind |-> "text", text |-> s]

\* Line 62: the text written in every script run.
Banner == << "Using Gemini Flash - Text only model" >>

\* Line 167: the label written over the recipes.
RecipesLabel == << "Your recipes:" >>

\* A user interaction reruns the script from the top: nothing of the last
\* run's locals or page is kept, the process-wide cache is.
StartRun ==
    /\ rpc \in {"idle", "done", "aborted"}
    /\ runs < MaxRuns
    /\ runs' = runs + 1
    /\ rpc' = "load"
    /\ text_model_flash' = NoHandle
    /\ cuisine' = NoSelection
    /\ dietary_preference' = NoSelection
    /\ allergy' = ""
    /\ ingredient_1' = ""
    /\ ingredient_2' = ""
    /\ ingredient_3' = ""
    /\ wine' = "Red"
    /\ prompt' = <<>>
    /\ generate_t2t' = FALSE
    /\ gpc' = "NotStarted"
    /\ calls' = 0
    /\ opens' = 0
    /\ model_arg' = NoHandle
    /\ contents' = <<>>
    /\ delivered' = <<>>
    /\ final_response' = <<>>
    /\ failure' = "none"
    /\ response' = <<>>
    /\ returned' = FALSE
    /\ out' = <<>>
    /\ UNCHANGED << cache, bodyRuns,
                    acquireVars >>

\* Lines 23-27 and 60, mutated: the cache is never consulted, the body runs
\* on every call.
load_models_uncached ==
    /\ rpc = "load"
    /\ bodyRuns' = bodyRuns + 1
    /\ cache' = text_model_flash_id
    /\ text_model_flash' = text_model_flash_id
    /\ rpc' = "form"
    /\ UNCHANGED << runs, widgetVars, prompt, generate_t2t, callVars, out,
                    acquireVars >>

\* Lines 23-27 and 60: text_model_flash = load_models().  The body runs on a
\* cache miss only; a hit returns the cached object.  Nothing is written.
load_models ==
    /\ rpc = "load"
    /\ IF cache = NoHandle
       THEN /\ bodyRuns' = bodyRuns + 1
            /\ cache' = text_model_flash_id
            /\ text_model_flash' = text_model_flash_id
       ELSE /\ text_model_flash' = cache
            /\ UNCHANGED << cache, bodyRuns >>
    /\ rpc' = "form"
    /\ UNCHANGED << runs, widgetVars, prompt, generate_t2t, callVars, out,
                    acquireVars >>

\* Lines 62-152: line 62's st.write, then the widgets return this run's
\* values, the prompt is built from them, and the button is True in a run its
\* press triggered.
Form ==
    /\ rpc = "form"
    /\ \E c \in CuisineChoices, d \in DietaryChoices, a \in AllergyChoices,
          i1 \in Ingredient1Choices, i2 \in Ingredient2Choices,
          i3 \in Ingredient3Choices, w \in WineChoices, pressed \in BOOLEAN :
          /\ cuisine' = c
          /\ dietary_preference' = d
          /\ allergy' = a
          /\ ingredient_1' = i1
          /\ ingredient_2' = i2
          /\ ingredient_3' = i3
          /\ wine' = w
          /\ prompt' = BuildPrompt(c, d, a, i1, i2, i3, w)
          /\ generate_t2t' = pressed
    /\ out' = Append(out, Write(Banner))
    /\ rpc' = "guard"
    /\ UNCHANGED << processVars, text_model_flash, callVars,
                    acquireVars >>

\* Line 155, false: the run ends with nothing called and nothing more shown.
SkipGenerate ==
    /\ rpc = "guard"
    /\ ~(generate_t2t /\ Truthy(prompt))
    /\ rpc' = "done"
    /\ UNCHANGED << processVars, formVars, callVars, out,
                    acquireVars >>

\* Lines 155-165: the handler calls get_gemini_flash_text_response.
CallGenerate ==
    /\ rpc = "guard"
    /\ generate_t2t /\ Truthy(prompt)
    /\ rpc' = "in_call"
    /\ calls' = calls + 1
    /\ gpc' = "NotStarted"
    /\ opens' = 0
    /\ model_arg' = text_model_flash
    /\ contents' = prompt
    /\ UNCHANGED << processVars, formVars, delivered, final_response, failure,
                    response, returned, out,
                    acquireVars >>

\* -------------------------------------------- get_gemini_flash_text_response

\* Lines 40-46: the streaming call is issued and the list is empty.
OpenStream ==
    /\ rpc = "in_call"
    /\ gpc = "NotStarted"
    /\ gpc' = "Streaming"
    /\ opens' = opens + 1
    /\ final_response' = <<>>
    /\ UNCHANGED << processVars, formVars, rpc, calls, model_arg, contents,
                    delivered, failure, response, returned, out,
                    acquireVars >>

\* Lines 47-54: the next fragment arrives and is collected.
ConsumeFragment ==
    /\ rpc = "in_call"
    /\ gpc = "Streaming"
    /\ Len(delivered) < MaxFrags
    /\ \E f \in Fragments :
          /\ delivered' = Append(delivered, f)
          /\ final_response' = Collect(final_response, f)
    /\ UNCHANGED << processVars, formVars, rpc, gpc, calls, opens, model_arg,
                    contents, failure, response, returned, out,
                    acquireVars >>

\* Lines 47 and 56: the stream ends and the loop is left.  The parts are
\* joined and returned to line 161; with a None among them the join raises
\* TypeError, which nothing catches: it leaves the function, the handler and
\* the script run.
StreamEnds ==
    /\ rpc = "in_call"
    /\ gpc = "Streaming"
    /\ IF JoinRaises(final_response)
       THEN /\ gpc' = "Failed"
            /\ failure' = "join"
            /\ rpc' = "aborted"
            /\ UNCHANGED << response, returned >>
       ELSE /\ gpc' = "Completed"
            /\ response' = Join(final_response)
            /\ returned' = TRUE
            /\ rpc' = "returned"
            /\ UNCHANGED failure
    /\ UNCHANGED << processVars, formVars, calls, opens, model_arg, contents,
                    delivered, final_response, out,
                    acquireVars >>

\* A stream that fails before its first fragment has failed to open.
FailureOf(frags) == IF frags = <<>> THEN "open" ELSE "midstream"

\* Lines 40-47, mutated: an error of the stream ends the loop, and the parts
\* so far are joined and returned.
StreamFailsReturningPartial ==
    /\ rpc = "in_call"
    /\ gpc = "Streaming"
    /\ gpc' = "Failed"
    /\ failure' = FailureOf(delivered)
    /\ response' = Join(Parts(delivered))
    /\ returned' = TRUE
    /\ rpc' = "returned"
    /\ UNCHANGED << processVars, formVars, calls, opens, model_arg, contents,
                    delivered, final_response, out,
                    acquireVars >>

\* Lines 40-47, mutated: the first error of the stream is answered by issuing
\* the call again.
StreamFailsRetryingOnce ==
    /\ rpc = "in_call"
    /\ gpc = "Streaming"
    /\ IF opens < 2
       THEN /\ opens' = opens + 1
            /\ delivered' = <<>>
            /\ final_response' = <<>>
            /\ UNCHANGED << gpc, failure, rpc >>
       ELSE /\ gpc' = "Failed"
            /\ failure' = FailureOf(delivered)
            /\ rpc' = "aborted"
            /\ UNCHANGED << opens, delivered, final_response >>
    /\ UNCHANGED << processVars, formVars, calls, model_arg, contents,
                    response, returned, out,
                    acquireVars >>

\* Lines 40-47: the stream fails to open, or the service signals an error in
\* the middle of it.  The exception is raised in the function, which catches
\* IndexError from `.text` only: it leaves the function, the handler and the
\* script run, and nothing is returned.
StreamFails ==
    /\ rpc = "in_call"
    /\ gpc = "Streaming"
    /\ gpc' = "Failed"
    /\ failure' = FailureOf(delivered)
    /\ rpc' = "aborted"
    /\ UNCHANGED << processVars, formVars, calls, opens, model_arg, contents,
                    delivered, final_response, response, returned, out,
                    acquireVars >>

\* ---------------------------------------------------------------- handler

\* Lines 166-169: a truthy response is written under its label, then logged.
ShowRecipes ==
    /\ rpc = "returned"
    /\ out' = IF Truthy(response)
              THEN out \o << Write(RecipesLabel), Write(response),
                             Log(response) >>
              ELSE out
    /\ rpc' = "tab2"
    /\ UNCHANGED << processVars, formVars, callVars,
                    acquireVars >>

\* Line 171, mutated: the second tab shows the prompt of the untouched form.
ShowDefaultPrompt ==
    /\ rpc = "tab2"
    /\ out' = Append(out, Text(BuildPrompt(NoSelection, NoSelection, "peanuts",
                                           "ahi tuna", "chicken breast", "tofu",
                                           "Red")))
    /\ rpc' = "done"
    /\ UNCHANGED << processVars, formVars, callVars,
                    acquireVars >>

\* Lines 170-171: the second tab shows the prompt.
ShowPrompt ==
    /\ rpc = "tab2"
    /\ out' = Append(out, Text(prompt))
    /\ rpc' = "done"
    /\ UNCHANGED << processVars, formVars, callVars,
                    acquireVars >>

Next ==
    \/ StartRun
    \/ load_models
    \/ Form
    \/ SkipGenerate
    \/ CallGenerate
    \/ OpenStream
    \/ ConsumeFragment
    \/ StreamEnds
    \/ StreamFails
    \/ ShowRecipes
    \/ ShowPrompt

Spec == Init /\ [][Next]_vars

\* The blocking loop of lines 47-54 goes on while the stream delivers, and a
\* finite stream ends: the steps of a call in progress are taken.
FairSpec ==
    Spec /\ WF_vars(OpenStream \/ ConsumeFragment \/ StreamEnds \/ StreamFails)

\* ------------------------------------------- Model Provider (spec section 4.1)

\* chef.py hard-codes one identifier (line 26) and attempts nothing.  The
\* ordered fallback chain is stated by the spec alone; this section models
\* acquire_model from it.

\* A static configuration: the preferred identifier, then the fallbacks.
ConfiguredIds == << "flash", "pro", "legacy" >>

Chains == { SubSeq(ConfiguredIds, 1, n) : n \in 1..Len(ConfiguredIds) }

\* acquire_model calls and user actions in one process.
MaxAcquireCalls == 3
MaxUserActions == 2

AcquireInit ==
    /\ ChefInit
    /\ chain \in Chains
    /\ avail \in SUBSET { ConfiguredIds[i] : i \in 1..Len(ConfiguredIds) }
    /\ apc = "start"
    /\ idx = 0
    /\ attempted = <<>>
    /\ warnings = 0
    /\ handle = NoHandle
    /\ got = NoHandle
    /\ acquireCalls = 0
    /\ userActions = 0

\* acquire_model is called: a cached handle is returned at once; otherwise
\* the preferred identifier is attempted first.
AcquireCall ==
    /\ apc \in {"start", "ready"}
    /\ acquireCalls < MaxAcquireCalls
    /\ acquireCalls' = acquireCalls + 1
    /\ IF handle # NoHandle
       THEN /\ got' = handle
            /\ UNCHANGED << apc, idx >>
       ELSE /\ apc' = "trying"
            /\ idx' = 1
            /\ got' = NoHandle
    /\ UNCHANGED << chain, avail, attempted, warnings, handle, userActions,
                    chefVars >>

\* The identifier at hand is instantiated: it is returned and cached, and no
\* further attempt is made.
AttemptSucceeds ==
    /\ apc = "trying"
    /\ chain[idx] \in avail
    /\ attempted' = Append(attempted, chain[idx])
    /\ handle' = chain[idx]
    /\ got' = chain[idx]
    /\ apc' = "ready"
    /\ UNCHANGED << chain, avail, idx, warnings, acquireCalls, userActions,
                    chefVars >>

\* The failed attempt, mutated: the failure is not logged, and an exhausted
\* chain yields the last identifier as a placeholder.
AttemptFailsSilently ==
    /\ apc = "trying"
    /\ chain[idx] \notin avail
    /\ attempted' = Append(attempted, chain[idx])
    /\ IF idx < Len(chain)
       THEN /\ idx' = idx + 1
            /\ UNCHANGED << apc, handle, got >>
       ELSE /\ apc' = "ready"
            /\ handle' = chain[idx]
            /\ got' = chain[idx]
            /\ UNCHANGED idx
    /\ UNCHANGED << chain, avail, warnings, acquireCalls, userActions,
                    chefVars >>

\* The identifier at hand cannot be instantiated: a warning is logged and the
\* next identifier is attempted; after the last one acquisition fails fatally.
AttemptFails ==
    /\ apc = "trying"
    /\ chain[idx] \notin avail
    /\ attempted' = Append(attempted, chain[idx])
    /\ warnings' = warnings + 1
    /\ IF idx < Len(chain)
       THEN /\ idx' = idx + 1
            /\ UNCHANGED apc
       ELSE /\ apc' = "fatal"
            /\ UNCHANGED idx
    /\ UNCHANGED << chain, avail, handle, got, acquireCalls, userActions,
                    chefVars >>

\* The application accepts a user action once it holds a handle.
UserAction ==
    /\ apc = "ready"
    /\ userActions < MaxUserActions
    /\ userActions' = userActions + 1
    /\ UNCHANGED << chain, avail, apc, idx, attempted, warnings, handle, got,
                    acquireCalls, chefVars >>

AcquireNext ==
    \/ AcquireCall
    \/ AttemptSucceeds
    \/ AttemptFails
    \/ UserAction

AcquireSpec == AcquireInit /\ [][AcquireNext]_vars

\* ================================================================ claims

RECURSIVE Offset(_, _)
\* Where part i starts in a single-space join of parts (counted from 0).
Offset(parts, i) ==
    IF i = 1 THEN 0 ELSE Offset(parts, i - 1) + Len(parts[i - 1]) + 1

\* s is parts laid out in order with exactly one space between neighbours.
IsSpaceJoin(s, parts) ==
    IF Len(parts) = 0 THEN s = <<>>
    ELSE /\ Len(s) = Offset(parts, Len(parts)) + Len(parts[Len(parts)])
         /\ \A i \in 1..Len(parts) :
               /\ SubSeq(s, Offset(parts, i) + 1, Offset(parts, i) + Len(parts[i]))
                     = parts[i]
               /\ i < Len(parts) => s[Offset(parts, i) + Len(parts[i]) + 1] = " "

AllSpaces(s) == \A i \in 1..Len(s) : s[i] = " "

\* The stream delivered its fragments and ended without an error.
StreamEndedNormally ==
    gpc = "Completed" \/ (gpc = "Failed" /\ failure = "join")

\* C1: once the stream has ended normally the call has returned the
\* single-space join, in delivery order, of each delivered fragment's text, or
\* of the empty string for a fragment without text; with no fragment at all
\* it has returned the empty string.
C1_ResultIsSpaceJoin ==
    StreamEndedNormally =>
        /\ returned
        /\ IsSpaceJoin(response, Parts(delivered))
        /\ delivered = <<>> => response = <<>>

\* C2: during a call the collected entries are as many as the fragments
\* consumed, every fragment that carries no text has the empty string in its
\* slot, and no such fragment makes the call fail.
C2_NoTextAbsorbed ==
    gpc \in {"Streaming", "Completed", "Failed"} =>
        /\ Len(final_response) = Len(delivered)
        /\ \A i \in 1..Len(delivered) :
              ~CarriesText(delivered[i]) => final_response[i] = <<>>
        /\ failure # "join"

\* C3: a call that failed, at the opening or after any number of fragments,
\* has raised to its caller: no value was returned, the handler's response
\* was never bound, and the handler wrote and logged nothing (the page holds
\* line 62's text alone).
C3_FailurePropagates ==
    gpc = "Failed" =>
        /\ rpc = "aborted"
        /\ ~returned
        /\ response = <<>>
        /\ out = << Write(Banner) >>

\* C3's case: the stream failed with text already collected.
C3_Witness ==
    /\ gpc = "Failed"
    /\ failure = "midstream"
    /\ final_response = << <<"a">>, <<"a", " ", "b">> >>

\* C4: after a call failed fatally, the page holds a warning and the script
\* run was not ended by the exception.
C4_FailureShownAsWarning ==
    gpc = "Failed" =>
        /\ rpc # "aborted"
        /\ \E i \in 1..Len(out) : out[i].kind = "warning"

\* C6: load_models' body runs at most once in the process, the cached handle
\* never changes once set, every later call returns it, and every generate
\* call is given it.
C6_HandleCachedOnce ==
    /\ [](/\ bodyRuns <= 1
          /\ cache # NoHandle => bodyRuns = 1
          /\ text_model_flash \in {NoHandle, cache}
          /\ calls > 0 => (model_arg = cache /\ model_arg # NoHandle))
    /\ [][ cache # NoHandle => (cache' = cache /\ bodyRuns' = bodyRuns) ]_vars

\* C6's case: a generate call of the second script run, on the handle the
\* first run's load cached.
C6_Witness ==
    /\ runs = 2
    /\ rpc = "in_call"
    /\ bodyRuns = 1
    /\ model_arg = text_model_flash_id

\* Where the page holds the response, the log holds it, the page holds a prompt.
ResultWrites == { i \in 1..Len(out) : out[i] = Write(response) }
ResultLogs == { i \in 1..Len(out) : out[i] = Log(response) }
PromptTexts == { i \in 1..Len(out) : out[i].kind = "text" }

\* C7: a call that completed with an empty or whitespace-only result is
\* surfaced as "nothing generated" and not as generated recipes: nothing is
\* written into the recipes tab.  (A tab left empty is counted here as the
\* "nothing generated" state; the program has no other.)
C7_BlankResultIsNoContent ==
    (rpc = "done" /\ gpc = "Completed" /\ AllSpaces(response)) =>
        /\ ResultWrites = {}
        /\ \A i \in 1..Len(out) : out[i] # Write(RecipesLabel)

\* C8: once a completed call's result is with the handler, it has been logged
\* exactly once, and before any write of it to the page.
C8_LoggedOnceBeforeDisplay ==
    (rpc \in {"tab2", "done"} /\ gpc = "Completed") =>
        /\ Cardinality(ResultLogs) = 1
        /\ \A i \in ResultLogs, j \in ResultWrites : i < j

\* C9: when a run whose call completed ends, the handler holds the call's
\* result (written to the page whenever it is non-empty), and the page holds
\* one prompt, the string the call was given, built from this run's form.  A
\* run without a button press makes no call and shows neither (the page holds
\* line 62's text alone).
C9_PromptShownIsPromptSent ==
    /\ (rpc = "done" /\ gpc = "Completed") =>
          /\ returned
          /\ contents = BuildPrompt(cuisine, dietary_preference, allergy,
                                    ingredient_1, ingredient_2, ingredient_3, wine)
          /\ Cardinality(PromptTexts) = 1
          /\ \A i \in PromptTexts : out[i].text = contents
          /\ Truthy(response) => ResultWrites # {}
    /\ (rpc = "done" /\ ~generate_t2t) =>
          /\ calls = 0
          /\ opens = 0
          /\ ~returned
          /\ out = << Write(Banner) >>

\* C9's case: a completed call on a form the user changed, with text to show.
C9_Witness ==
    /\ rpc = "done"
    /\ gpc = "Completed"
    /\ cuisine = <<"Italian">>
    /\ wine = "None"
    /\ response = << "a", " ", "a" >>

\* C10: a call goes NotStarted -> Streaming -> Completed or Failed.  It
\* opens its stream at most once; control is back with the caller only once
\* the call is Completed (a return) or Failed (a raise); Completed and Failed
\* are left only by the next script run's new call, with nothing re-opened or
\* consumed; and a call in progress ends in one of them.
C10_CallStateMachine ==
    /\ [](/\ opens <= 1
          /\ rpc \in {"returned", "tab2", "done"} /\ calls > 0 => gpc = "Completed"
          /\ rpc = "aborted" => gpc = "Failed"
          /\ gpc \in {"Streaming", "Completed", "Failed"} => opens = 1)
    /\ [][ gpc' # gpc =>
              \/ << gpc, gpc' >> \in { << "NotStarted", "Streaming" >>,
                                       << "Streaming", "Completed" >>,
                                       << "Streaming", "Failed" >> }
              \/ runs' = runs + 1 /\ gpc' = "NotStarted" ]_vars
    /\ [][ (gpc \in {"Completed", "Failed"} /\ runs' = runs) =>
              /\ gpc' = gpc
              /\ opens' = opens
              /\ delivered' = delivered
              /\ final_response' = final_response ]_vars
    /\ (rpc = "in_call") ~> (gpc \in {"Completed", "Failed"})

\* C10's case: a call that failed after consuming fragments, still Failed
\* with its one opening when the run has ended.
C10_Witness ==
    /\ gpc = "Failed"
    /\ rpc = "aborted"
    /\ opens = 1
    /\ Len(delivered) = 2

\* The first position of the chain whose identifier the service instantiates.
IsFirstAvailable(k) ==
    /\ k \in 1..Len(chain)
    /\ chain[k] \in avail
    /\ \A j \in 1..(k - 1) : chain[j] \notin avail

\* C5: acquire_model attempts the chain in order from the preferred
\* identifier and stops at the first success, with one warning per failed
\* attempt (exactly one when the first fallback succeeds); when every
\* identifier fails it ends fatally with no handle, and no user action is
\* accepted.
C5_OrderedFirstSuccessWins ==
    /\ Len(attempted) <= Len(chain)
    /\ attempted = SubSeq(chain, 1, Len(attempted))
    /\ apc = "ready" =>
          \E k \in 1..Len(chain) :
              /\ IsFirstAvailable(k)
              /\ handle = chain[k]
              /\ got = handle
              /\ Len(attempted) = k
              /\ warnings = k - 1
    /\ (apc = "ready" /\ handle = chain[1]) => warnings = 0
    /\ apc = "fatal" =>
          /\ \A j \in 1..Len(chain) : chain[j] \notin avail
          /\ handle = NoHandle
          /\ got = NoHandle
          /\ warnings = Len(chain)
    /\ userActions > 0 => (apc = "ready" /\ handle \in avail)

\* C5's case: the preferred identifier failed and the fallback succeeded.
C5_Witness ==
    /\ apc = "ready"
    /\ chain = << "flash", "pro", "legacy" >>
    /\ handle = "pro"
    /\ attempted = << "flash", "pro" >>
    /\ warnings = 1
    /\ userActions = 1

====
